---- MODULE Spec2Model ----
(***************************************************************************)
(* Sale posting of the barber POS application: the "pos/createSale" IPC    *)
(* handler of the Electron main process (electron.js) over the SQLite      *)
(* ledger (tables products, sales, sale_items), the other handlers that    *)
(* write to the database, and the read side (dashboard/metrics and         *)
(* reports/sales), and of the renderer: the routes and the AuthContext of  *)
(* App, and the cart and checkout of the POS page.                         *)
(*                                                                         *)
(* Money is counted in hundredths of the currency unit (35 -> 3500) and    *)
(* the tax rate in percent (0.15 -> 15), so that tax = base * rate / 100   *)
(* is exact on the integers for the inputs used (all amounts are whole     *)
(* units).  Floating point rounding is not modelled.                       *)
(*                                                                         *)
(* The store is better-sqlite3, whose bundled SQLite enforces foreign keys *)
(* by default: a sale_items row whose productId names no product is        *)
(* refused, and a product that a sale_items row names cannot be deleted.   *)
(* The main process is single threaded and the handlers are synchronous:   *)
(* a handler runs to completion before the next IPC message is taken.      *)
(*                                                                         *)
(* The clock has two instants a day, counted from the installation: 2d is *)
(* the start of day d and 2d + 1 its end.  createdAt columns hold the      *)
(* instant of the insert (CURRENT_TIMESTAMP), Day(t) is its calendar date  *)
(* and Month(t) its calendar month, in a calendar of 30-day months that    *)
(* starts on the day of the installation.  SQLite's 'now' and              *)
(* CURRENT_TIMESTAMP are both UTC, and 'now' is evaluated once for each    *)
(* statement.                                                              *)
(* Text columns (product names, user names) are numbered by their rank in  *)
(* the collation order, so that < on the numbers is < on the texts.        *)
(***************************************************************************)
EXTENDS Integers, Sequences, FiniteSets, TLC

\* Number of createSale calls in one behaviour of Spec.
MaxCalls == 1

\* Number of createSale calls in one behaviour of SpecConc.
MaxConcCalls == 2

VARIABLES
  products,    \* table products: id -> [price, quantity], for the ids that exist
  sales,       \* table sales: sequence of rows, row i has id i
  sale_items,  \* table sale_items: sequence of rows, row i has id i
  postings,    \* history: for each sales row, the cart of the call that wrote it
  posted,      \* history: per product id, the quantity posted by calls that replied ok
  inflight,    \* IPC requests sent by the renderer and not yet handled, per caller
  call,        \* the createSale call handled last: its payload and caller
  resp,        \* the reply (or failure) of the call handled last
  ncalls,      \* number of createSale calls handled so far
  now,         \* the clock
  users,       \* table users: id -> [username, role]
  expenses,    \* table expenses: id -> [amount, createdAt]
  contacts,    \* tables customers and suppliers: each id -> [name]
  settings,    \* table settings, its single row: [taxRate]
  sqlite_sequence, \* AUTOINCREMENT: the largest rowid given out so far, per table
  nops,        \* number of writing calls other than createSale handled so far
  out,         \* the result of the read-only call handled last
  ui           \* the renderer: logged-in user, location, page, POS page state

\* The ledger, the other tables, and the rest of the state.
ledger == <<products, sales, sale_items>>
others == <<users, expenses, contacts, settings, sqlite_sequence>>
history == <<postings, posted, call, resp, ncalls>>

vars == <<products, sales, sale_items, postings, posted, inflight, call, resp, ncalls,
          now, users, expenses, contacts, settings, sqlite_sequence, nops, out, ui>>

-----------------------------------------------------------------------------
(* The database after initializeDatabase() on a fresh install.             *)

SeedTaxRate == 15

\* The names of the seeded products 1..5 begin with the letters qaf, ha,
\* mim, shin, kaf: in code point order ha < shin < qaf < kaf < mim.
SeedProducts ==
  ( 1 :> [name |-> 3, price |-> 3500, quantity |-> 20] ) @@
  ( 2 :> [name |-> 1, price |-> 2500, quantity |-> 15] ) @@
  ( 3 :> [name |-> 5, price |-> 6000, quantity |-> 10] ) @@
  ( 4 :> [name |-> 2, price |-> 2000, quantity |-> 25] ) @@
  ( 5 :> [name |-> 4, price |-> 4000, quantity |-> 12] )

ProductIds == DOMAIN SeedProducts

SeedSales ==
  << [id |-> 1, customerId |-> 1, total |-> 10000, discount |-> 500, tax |-> 1500,
      paidAmount |-> 12000, changeAmount |-> 2000, userId |-> 1,
      createdAt |-> 0] >>

SeedSaleItems ==
  << [id |-> 1, saleId |-> 1, productId |-> 1, quantity |-> 1, price |-> 3500],
     [id |-> 2, saleId |-> 1, productId |-> 3, quantity |-> 1, price |-> 6000] >>

SeedUsers == ( 1 :> [username |-> 1, role |-> "admin"] )

SeedExpenses == ( 1 :> [amount |-> 1500, createdAt |-> 0] )

SeedContacts == [customers |-> ( 1 :> [name |-> 1] ), suppliers |-> << >>]

SeedSettings == [taxRate |-> SeedTaxRate, logoPath |-> 0]

SeedSequence ==
  [products |-> 5, customers |-> 1, suppliers |-> 0, expenses |-> 1, users |-> 1]

-----------------------------------------------------------------------------
(* Inputs: the payloads a renderer sends to "pos/createSale".              *)

\* A cart line as addToCart builds it: the product's id and price, a quantity.
Line(id, q) == [id |-> id, price |-> SeedProducts[id].price, quantity |-> q]

Lines == { Line(1, 1), Line(2, 1), Line(3, 1), Line(3, -1), Line(2, 0) }

Carts == { <<>> } \cup { <<a>> : a \in Lines } \cup { <<a, b>> : a, b \in Lines }

Discounts == { 0, 500, 20000 }

PaidAmounts == { 12000 }

Payloads ==
  [ items : Carts, discount : Discounts, taxRate : { SeedTaxRate },
    paidAmount : PaidAmounts, userId : { 1 } ]

\* Storage faults a call can meet: none, insertSale.run throwing, the write of
\* the line at position `at` throwing inside the transaction, or the process
\* dying between the header insert and the commit of the transaction.
Faults ==
  { [kind |-> k, at |-> 0] : k \in { "none", "insertSale", "crash" } }
    \cup { [kind |-> "write", at |-> i] : i \in { 1, 2 } }

NoFault == [kind |-> "none", at |-> 0]

-----------------------------------------------------------------------------
(* pos/createSale                                                          *)

\* items.reduce((acc, item) => acc + item.price * item.quantity, 0)
RECURSIVE reduce(_, _, _)
reduce(items, i, acc) ==
  IF i > Len(items) THEN acc
  ELSE reduce(items, i + 1, acc + items[i].price * items[i].quantity)

Subtotal(items) == reduce(items, 1, 0)

\* discount || 0
DiscountValue(discount) == IF discount = 0 THEN 0 ELSE discount

\* Mutant of TaxValue: the tax taken on the subtotal, before the discount.
TaxValueOnSubtotal(subtotal, discountValue, taxRate) == (subtotal * taxRate) \div 100

\* (subtotal - discountValue) * taxRate
TaxValue(subtotal, discountValue, taxRate) ==
  ((subtotal - discountValue) * taxRate) \div 100

\* Mutant of Total: the discount left out of the total.
TotalNoDiscount(subtotal, discountValue, taxValue) == subtotal + taxValue

\* subtotal - discountValue + taxValue
Total(subtotal, discountValue, taxValue) == subtotal - discountValue + taxValue

\* Mutant of ChangeAmount: no change is due on an underpaid sale.
ChangeAmountClamped(paidAmount, total) ==
  IF paidAmount >= total THEN paidAmount - total ELSE 0

\* paidAmount - total
ChangeAmount(paidAmount, total) == paidAmount - total

\* Mutant of insertSale: tax and changeAmount are left to their column
\* default, 0.
insertSaleDefaults(rows, total, discountValue, taxValue, paidAmount, changeAmount, userId, createdAt) ==
  Append(rows, [id |-> Len(rows) + 1, customerId |-> 0,
                total |-> total, discount |-> discountValue,
                tax |-> 0, paidAmount |-> paidAmount,
                changeAmount |-> 0, userId |-> userId,
                createdAt |-> createdAt])

\* INSERT INTO sales (...) VALUES (...): the new row gets the next rowid.
\* createdAt is not in the column list: it takes its default, CURRENT_TIMESTAMP.
\* customerId is payload.customerId || null; handleCheckout sends none, and
\* NULL is written 0.
insertSale(rows, total, discountValue, taxValue, paidAmount, changeAmount, userId, createdAt) ==
  Append(rows, [id |-> Len(rows) + 1, customerId |-> 0,
                total |-> total, discount |-> discountValue,
                tax |-> taxValue, paidAmount |-> paidAmount,
                changeAmount |-> changeAmount, userId |-> userId,
                createdAt |-> createdAt])

\* INSERT INTO sale_items (saleId, productId, quantity, price) VALUES (?, ?, ?, ?)
insertItem(rows, saleId, item) ==
  Append(rows, [id |-> Len(rows) + 1, saleId |-> saleId, productId |-> item.id,
                quantity |-> item.quantity, price |-> item.price])

\* Mutant of updateStock: the UPDATE without its WHERE clause.
updateStockAll(prods, quantity, id) ==
  [ p \in DOMAIN prods |-> [prods[p] EXCEPT !.quantity = @ - quantity] ]

\* Mutant of updateStock: the new quantity computed from a stock value read
\* earlier (here the one the product list showed), not from the row.
updateStockStale(prods, quantity, id) ==
  [ p \in DOMAIN prods |->
      IF p = id THEN [prods[p] EXCEPT !.quantity = SeedProducts[p].quantity - quantity]
      ELSE prods[p] ]

\* UPDATE products SET quantity = quantity - ? WHERE id = ?
updateStock(prods, quantity, id) ==
  [ p \in DOMAIN prods |->
      IF p = id THEN [prods[p] EXCEPT !.quantity = @ - quantity] ELSE prods[p] ]

\* saleItems.forEach(item => { insertItem.run(...); updateStock.run(...) }).
\* insertItem.run throws on a productId that names no product (foreign key)
\* and on the injected storage fault; the lines before it have been written.
RECURSIVE forEachItem(_, _, _, _, _, _)
forEachItem(items, i, saleId, rows, prods, fault) ==
  IF i > Len(items)
  THEN [ok |-> TRUE, sale_items |-> rows, products |-> prods]
  ELSE IF items[i].id \notin DOMAIN prods \/ (fault.kind = "write" /\ fault.at = i)
  THEN [ok |-> FALSE, sale_items |-> rows, products |-> prods]
  ELSE forEachItem(items, i + 1, saleId, insertItem(rows, saleId, items[i]),
                   updateStock(prods, items[i].quantity, items[i].id), fault)

\* db.transaction(fn)(items): BEGIN, fn, COMMIT; ROLLBACK when fn throws, and
\* the uncommitted writes are dropped at recovery when the process dies.
transaction(items, saleId, rows, prods, fault) ==
  LET r == forEachItem(items, 1, saleId, rows, prods, fault)
  IN  IF r.ok /\ fault.kind # "crash" THEN r
      ELSE [ok |-> FALSE, sale_items |-> rows, products |-> prods]

NoReply ==
  [kind |-> "none", stage |-> "none", saleId |-> 0, total |-> 0, taxValue |-> 0,
   discountValue |-> 0, changeAmount |-> 0]

Failure(kind, stage) == [NoReply EXCEPT !.kind = kind, !.stage = stage]

\* The handler as a function of the database: the tables after the call and
\* the reply.  The header is inserted by a statement of its own (autocommit),
\* before the transaction that writes the lines and the stock.
createSale(db, payload, fault) ==
  LET items         == payload.items
      subtotal      == Subtotal(items)
      discountValue == DiscountValue(payload.discount)
      taxValue      == TaxValue(subtotal, discountValue, payload.taxRate)
      total         == Total(subtotal, discountValue, taxValue)
      changeAmount  == ChangeAmount(payload.paidAmount, total)
  IN
  IF fault.kind = "insertSale"
  THEN [sales |-> db.sales, sale_items |-> db.sale_items, products |-> db.products,
        resp |-> Failure("error", "insertSale")]
  ELSE
    LET rows   == insertSale(db.sales, total, discountValue, taxValue,
                             payload.paidAmount, changeAmount, payload.userId,
                             db.now)
        saleId == Len(rows)
        tx     == transaction(items, saleId, db.sale_items, db.products, fault)
    IN  [sales |-> rows, sale_items |-> tx.sale_items, products |-> tx.products,
         resp |->
           IF tx.ok
           THEN [kind |-> "ok", stage |-> "done", saleId |-> saleId, total |-> total,
                 taxValue |-> taxValue, discountValue |-> discountValue,
                 changeAmount |-> changeAmount]
           ELSE IF fault.kind = "crash" THEN Failure("crashed", "transaction")
           ELSE Failure("error", "transaction")]

-----------------------------------------------------------------------------
(* POSPage: the totals shown before checkout (POSPage.tsx, lines 62-65).   *)

previewSubtotal(cart) == reduce(cart, 1, 0)

previewTax(cart, discount, taxRate) ==
  ((previewSubtotal(cart) - discount) * taxRate) \div 100

previewTotal(cart, discount, taxRate) ==
  previewSubtotal(cart) - discount + previewTax(cart, discount, taxRate)

-----------------------------------------------------------------------------
(* State machine                                                           *)

Callers == { "w1", "w2" }

NoReq == [busy |-> FALSE, conc |-> FALSE, payload |-> CHOOSE p \in Payloads : TRUE]

NoCall == [caller |-> "none", conc |-> FALSE, payload |-> NoReq.payload]

\* out is the reply of the last call served when that call was
\* dashboard/metrics or reports/sales, with the clock readings `at` it made.
NoOut == [op |-> "none"]

\* Quantity of product id on the lines of a cart.
RECURSIVE PostedQty(_, _)
PostedQty(items, id) ==
  IF items = <<>> THEN 0
  ELSE (IF Head(items).id = id THEN Head(items).quantity ELSE 0)
         + PostedQty(Tail(items), id)

\* AuthContext: no user before a login (useState<User | null>(null)).
NoUser == [id |-> 0, username |-> 0, role |-> "none"]

\* A handleCheckout invocation that is not running.
IdleCheckout ==
  [stage |-> "idle", kind |-> "none", saleId |-> 0, items |-> <<>>, persisted |-> FALSE]

\* The renderer when the window has loaded: nobody is logged in, so the
\* index route has redirected to /login; the POS page state is that of its
\* useState initial values; no toast is shown.
InitUi ==
  [ user |-> NoUser, requested |-> "/", location |-> "/login", page |-> "LoginPage",
    cart |-> <<>>, discount |-> 0, paidAmount |-> 0, toast |-> "none",
    checkout |-> [c \in Callers |-> IdleCheckout] ]

Init ==
  /\ ui = InitUi
  /\ products = SeedProducts
  /\ sales = SeedSales
  /\ sale_items = SeedSaleItems
  /\ postings = << <<Line(1, 1), Line(3, 1)>> >>
  /\ posted = [id \in ProductIds |-> 0]
  /\ inflight = [c \in Callers |-> NoReq]
  /\ call = NoCall
  /\ resp = NoReply
  /\ ncalls = 0
  /\ now = 0
  /\ users = SeedUsers
  /\ expenses = SeedExpenses
  /\ contacts = SeedContacts
  /\ settings = SeedSettings
  /\ sqlite_sequence = SeedSequence
  /\ nops = 0
  /\ out = NoOut

\* The main process takes the request `req` of caller c and runs the handler.
Run(c, req, fault) ==
  LET r == createSale([sales |-> sales, sale_items |-> sale_items,
                       products |-> products, now |-> now], req.payload, fault)
  IN  /\ sales' = r.sales
      /\ sale_items' = r.sale_items
      /\ products' = r.products
      /\ resp' = r.resp
      /\ call' = [caller |-> c, conc |-> req.conc, payload |-> req.payload]
      /\ ncalls' = ncalls + 1
      /\ postings' = IF Len(r.sales) > Len(sales)
                     THEN Append(postings, req.payload.items) ELSE postings
      /\ posted' = IF r.resp.kind = "ok"
                   THEN [id \in ProductIds |->
                           posted[id] + PostedQty(req.payload.items, id)]
                   ELSE posted
      /\ UNCHANGED <<others, now, nops>>
      /\ out' = NoOut

\* One renderer: window.posAPI.createSale(payload) is sent and handled.
Post(payload, fault) ==
  /\ ncalls < MaxCalls
  /\ Run("w1", [busy |-> TRUE, conc |-> FALSE, payload |-> payload], fault)
  /\ UNCHANGED <<inflight, ui>>

\* products/delete: DELETE FROM products WHERE id = ?.  The statement throws
\* (and changes nothing) while a sale_items row names the product.
ProductsDelete(id) ==
  /\ id \in DOMAIN products
  /\ \A i \in 1..Len(sale_items) : sale_items[i].productId # id
  /\ products' = [p \in DOMAIN products \ { id } |-> products[p]]
  /\ UNCHANGED <<sales, sale_items, history, inflight, ui, others, now, nops>>
  /\ out' = NoOut

CartIds == { l.id : l \in Lines }

Next ==
  \/ \E payload \in Payloads, fault \in Faults : Post(payload, fault)
  \/ \E id \in CartIds : ProductsDelete(id)

Spec == Init /\ [][Next]_vars

-----------------------------------------------------------------------------
(* Two createSale calls in flight at once: the checkout button pressed     *)
(* twice before the first reply, or two windows.  The renderer sends the   *)
(* IPC message (Issue); the main process takes the pending messages one at *)
(* a time, in any order across callers, and runs the synchronous handler   *)
(* to completion for each (Handle).                                        *)

\* Carts of one or two lines on the products 1 and 3, without discount.
ConcPayloads ==
  { p \in Payloads :
      /\ p.discount = 0
      /\ p.items # <<>>
      /\ \A i \in 1..Len(p.items) : p.items[i] \in { Line(1, 1), Line(3, 1) } }

Pending == { c \in Callers : inflight[c].busy }

Issue(c, payload) ==
  /\ ~inflight[c].busy
  /\ ncalls + Cardinality(Pending) < MaxConcCalls
  /\ inflight' = [d \in Callers |->
                    IF d = c THEN [busy |-> TRUE, conc |-> Pending # {}, payload |-> payload]
                    ELSE IF inflight[d].busy THEN [inflight[d] EXCEPT !.conc = TRUE]
                    ELSE inflight[d]]
  /\ UNCHANGED <<ledger, history, others, now, nops, out, ui>>

Handle(c, fault) ==
  /\ inflight[c].busy
  /\ Run(c, inflight[c], fault)
  /\ inflight' = [inflight EXCEPT ![c] = NoReq]
  /\ UNCHANGED ui

NextConc ==
  \/ \E c \in Callers, payload \in ConcPayloads : Issue(c, payload)
  \/ \E c \in Callers, fault \in Faults : Handle(c, fault)

SpecConc == Init /\ [][NextConc]_vars

-----------------------------------------------------------------------------
(* The ledger under product edits: sales posted from a cart that was built *)
(* from the product list the POS page loaded at the installation state,    *)
(* while products/save changes prices and stock.                           *)

\* Mutant of saveProduct: an edit of a product also reprices the sale_items
\* rows that name it.
saveProductReprice(prods, items, seq, product) ==
  [ products |-> [prods EXCEPT ![product.id] =
                    [name |-> product.name, price |-> product.price,
                     quantity |-> product.quantity]],
    sale_items |-> [i \in 1..Len(items) |->
                      IF items[i].productId = product.id
                      THEN [items[i] EXCEPT !.price = product.price] ELSE items[i]],
    sqlite_sequence |-> seq ]

\* products/save: UPDATE products SET ... WHERE id = ? when the product has an
\* id (no row changes when no product has that id), INSERT otherwise.  An
\* absent id is written 0.
saveProduct(prods, items, seq, product) ==
  LET row == [name |-> product.name, price |-> product.price,
              quantity |-> product.quantity]
  IN  IF product.id # 0
      THEN [ products |-> [p \in DOMAIN prods |-> IF p = product.id THEN row ELSE prods[p]],
             sale_items |-> items, sqlite_sequence |-> seq ]
      ELSE [ products |-> prods @@ ((seq.products + 1) :> row),
             sale_items |-> items,
             sqlite_sequence |-> [seq EXCEPT !.products = @ + 1] ]

\* Number of createSale calls in one behaviour of SpecLedger.
MaxLedgerCalls == 2

\* Number of other writing calls in one behaviour of SpecLedger.
MaxLedgerEdits == 2

\* The product form: product 1 with a new price or no stock left, a new product.
ProductForms ==
  { [id |-> 1, name |-> SeedProducts[1].name, price |-> pr, quantity |-> q] :
      pr \in { 3500, 4000 }, q \in { 0, 20 } }
    \cup { [id |-> 0, name |-> 6, price |-> 1000, quantity |-> 5] }

LedgerPayloads ==
  { p \in Payloads :
      /\ p.discount = 500
      /\ p.items \in { <<Line(1, 1)>>, <<Line(1, 1), Line(3, 1)>> } }

PostLedger(payload, fault) ==
  /\ ncalls < MaxLedgerCalls
  /\ Run("w1", [busy |-> TRUE, conc |-> FALSE, payload |-> payload], fault)
  /\ UNCHANGED <<inflight, ui>>

ProductsSave(product) ==
  /\ LET r == saveProduct(products, sale_items, sqlite_sequence, product)
     IN  /\ products' = r.products
         /\ sale_items' = r.sale_items
         /\ sqlite_sequence' = r.sqlite_sequence
  /\ nops' = nops + 1
  /\ UNCHANGED <<sales, history, inflight, ui, users, expenses, contacts, settings, now>>
  /\ out' = NoOut

NextLedger ==
  \/ \E payload \in LedgerPayloads, fault \in Faults : PostLedger(payload, fault)
  \/ \E product \in ProductForms : nops < MaxLedgerEdits /\ ProductsSave(product)

SpecLedger == Init /\ [][NextLedger]_vars

-----------------------------------------------------------------------------
(* Every handler that writes to the database.  A statement that violates   *)
(* a constraint throws and changes nothing; such a call is not a step.     *)

\* The other tables stay as they are.
OnlyProducts ==
  /\ UNCHANGED <<sales, history, inflight, ui, users, expenses, contacts,
                            settings, now>>
  /\ out' = NoOut

\* products/importCsv: the rows of the chosen file, inserted in one transaction.
ProductsImportCsv(rows) ==
  /\ products' = products @@
       [ id \in (sqlite_sequence.products + 1)..(sqlite_sequence.products + Len(rows)) |->
           rows[id - sqlite_sequence.products] ]
  /\ sqlite_sequence' = [sqlite_sequence EXCEPT !.products = @ + Len(rows)]
  /\ nops' = nops + 1
  /\ UNCHANGED sale_items
  /\ OnlyProducts

CsvFiles == { << [name |-> 7, price |-> 1000, quantity |-> 0] >> }

ContactTables == { "customers", "suppliers" }

\* contacts/save: UPDATE ... WHERE id = ? or INSERT, in customers or suppliers.
ContactsSave(table, data) ==
  /\ IF data.id # 0
     THEN /\ data.id \in DOMAIN contacts[table]
          /\ contacts' = [contacts EXCEPT ![table][data.id] = [name |-> data.name]]
          /\ UNCHANGED sqlite_sequence
     ELSE /\ contacts' = [contacts EXCEPT
                            ![table] = @ @@ ((sqlite_sequence[table] + 1) :> [name |-> data.name])]
          /\ sqlite_sequence' = [sqlite_sequence EXCEPT ![table] = @ + 1]
  /\ nops' = nops + 1
  /\ UNCHANGED <<ledger, history, inflight, ui, users, expenses, settings, now>>
  /\ out' = NoOut

ContactForms == { [id |-> i, name |-> 2] : i \in { 0, 1 } }

\* contacts/delete: DELETE FROM customers|suppliers WHERE id = ?.  A customer
\* that a sales row names cannot be deleted (foreign key).
ContactsDelete(table, id) ==
  /\ id \in DOMAIN contacts[table]
  /\ table = "customers" => \A s \in 1..Len(sales) : sales[s].customerId # id
  /\ contacts' = [contacts EXCEPT
                    ![table] = [c \in DOMAIN contacts[table] \ { id } |-> contacts[table][c]]]
  /\ nops' = nops + 1
  /\ UNCHANGED <<ledger, history, inflight, ui, users, expenses, settings, sqlite_sequence,
                 now>>
  /\ out' = NoOut

\* expenses/save: UPDATE expenses SET title, amount, notes WHERE id = ? or
\* INSERT (createdAt takes CURRENT_TIMESTAMP).
ExpensesSave(expense) ==
  /\ IF expense.id # 0
     THEN /\ expense.id \in DOMAIN expenses
          /\ expenses' = [expenses EXCEPT ![expense.id].amount = expense.amount]
          /\ UNCHANGED sqlite_sequence
     ELSE /\ expenses' = expenses @@
               ((sqlite_sequence.expenses + 1) :> [amount |-> expense.amount, createdAt |-> now])
          /\ sqlite_sequence' = [sqlite_sequence EXCEPT !.expenses = @ + 1]
  /\ nops' = nops + 1
  /\ UNCHANGED <<ledger, history, inflight, ui, users, contacts, settings, now>>
  /\ out' = NoOut

ExpenseForms == { [id |-> i, amount |-> 2000] : i \in { 0, 1 } }

\* expenses/delete: DELETE FROM expenses WHERE id = ?
ExpensesDelete(id) ==
  /\ id \in DOMAIN expenses
  /\ expenses' = [e \in DOMAIN expenses \ { id } |-> expenses[e]]
  /\ nops' = nops + 1
  /\ UNCHANGED <<ledger, history, inflight, ui, users, contacts, settings, sqlite_sequence,
                 now>>
  /\ out' = NoOut

\* settings/save: the single settings row is replaced by the form's values.
SettingsSave(form) ==
  /\ settings' = [taxRate |-> form.taxRate, logoPath |-> form.logoPath]
  /\ nops' = nops + 1
  /\ UNCHANGED <<ledger, history, inflight, ui, users, expenses, contacts, sqlite_sequence,
                 now>>
  /\ out' = NoOut

SettingsForms == { [taxRate |-> t, logoPath |-> 0] : t \in { 0, SeedTaxRate } }

\* settings/uploadLogo: UPDATE settings SET logoPath = ? WHERE id = 1 with the
\* path of the chosen file (a cancelled dialog writes nothing).
SettingsUploadLogo(logoPath) ==
  /\ settings' = [settings EXCEPT !.logoPath = logoPath]
  /\ nops' = nops + 1
  /\ UNCHANGED <<ledger, history, inflight, ui, users, expenses, contacts, sqlite_sequence,
                 now>>
  /\ out' = NoOut

\* users/save: UPDATE users SET username, role WHERE id = ? or INSERT.
\* username is UNIQUE.
saveUser(us, seq, user) ==
  LET row == [username |-> user.username, role |-> user.role]
  IN  IF user.id # 0
      THEN [ users |-> [u \in DOMAIN us |-> IF u = user.id THEN row ELSE us[u]],
             sqlite_sequence |-> seq ]
      ELSE [ users |-> us @@ ((seq.users + 1) :> row),
             sqlite_sequence |-> [seq EXCEPT !.users = @ + 1] ]

UsersSave(user) ==
  /\ \A u \in DOMAIN users : u # user.id => users[u].username # user.username
  /\ LET r == saveUser(users, sqlite_sequence, user)
     IN  /\ users' = r.users
         /\ sqlite_sequence' = r.sqlite_sequence
  /\ nops' = nops + 1
  /\ UNCHANGED <<ledger, history, inflight, ui, expenses, contacts, settings, now>>
  /\ out' = NoOut

UserForms ==
  { [id |-> 0, username |-> 2, role |-> "cashier"],
    [id |-> 1, username |-> 3, role |-> "admin"] }

\* Mutant of deleteUser: the sales of the deleted user go with it (ON DELETE
\* CASCADE on sales.userId); the sales rows keep their ids.
deleteUserCascade(us, rows, id) ==
  [ users |-> [u \in DOMAIN us \ { id } |-> us[u]],
    sales |-> LET Kept(r) == r.userId # id IN SelectSeq(rows, Kept),
    ok |-> TRUE ]

\* DELETE FROM users WHERE id = ?.  A user that a sales row names cannot be
\* deleted (foreign key): the statement throws.
deleteUser(us, rows, id) ==
  IF \E s \in 1..Len(rows) : rows[s].userId = id
  THEN [ users |-> us, sales |-> rows, ok |-> FALSE ]
  ELSE [ users |-> [u \in DOMAIN us \ { id } |-> us[u]], sales |-> rows, ok |-> TRUE ]

\* users/delete
UsersDelete(id) ==
  /\ id \in DOMAIN users
  /\ LET r == deleteUser(users, sales, id)
     IN  /\ r.ok
         /\ users' = r.users
         /\ sales' = r.sales
  /\ nops' = nops + 1
  /\ UNCHANGED <<products, sale_items, history, inflight, ui, expenses, contacts, settings,
                 sqlite_sequence, now>>
  /\ out' = NoOut

\* Number of writing calls in one behaviour of SpecAll.
MaxAllOps == 3

AllPayloads == { p \in LedgerPayloads : Len(p.items) = 2 }

PostAll(payload, fault) ==
  /\ Run("w1", [busy |-> TRUE, conc |-> FALSE, payload |-> payload], fault)
  /\ UNCHANGED <<inflight, ui>>

AllBudget == nops + ncalls < MaxAllOps

NextAll ==
  \/ \E payload \in AllPayloads, fault \in Faults : AllBudget /\ PostAll(payload, fault)
  \/ \E product \in ProductForms : AllBudget /\ ProductsSave(product)
  \/ \E id \in CartIds : AllBudget /\ ProductsDelete(id)
  \/ \E rows \in CsvFiles : AllBudget /\ ProductsImportCsv(rows)
  \/ \E t \in ContactTables, data \in ContactForms : AllBudget /\ ContactsSave(t, data)
  \/ \E t \in ContactTables, id \in { 1 } : AllBudget /\ ContactsDelete(t, id)
  \/ \E expense \in ExpenseForms : AllBudget /\ ExpensesSave(expense)
  \/ \E id \in { 1 } : AllBudget /\ ExpensesDelete(id)
  \/ \E form \in SettingsForms : AllBudget /\ SettingsSave(form)
  \/ \E logoPath \in { 1 } : AllBudget /\ SettingsUploadLogo(logoPath)
  \/ \E user \in UserForms : AllBudget /\ UsersSave(user)
  \/ \E id \in { 1, 2 } : AllBudget /\ UsersDelete(id)

SpecAll == Init /\ [][NextAll]_vars

-----------------------------------------------------------------------------
(* dashboard/metrics and reports/sales.  Both read the tables and the      *)
(* clock and write nothing.  Where the ORDER BY of a query leaves rows     *)
(* with equal keys, SQLite may return them in any order: the reply is      *)
(* chosen among all the orders the query allows.                           *)

\* date(createdAt), date('now'): the calendar day of an instant.
Day(t) == t \div 2

\* strftime('%Y-%m', ...): the calendar month of an instant.
Month(t) == Day(t) \div 30

RECURSIVE SumOver(_, _)
\* SUM(f[x]) over the rows x of S; IFNULL(..., 0) on no row.
SumOver(S, f) ==
  IF S = {} THEN 0
  ELSE LET x == CHOOSE y \in S : TRUE IN f[x] + SumOver(S \ { x }, f)

\* Mutant of OrderByDesc: the keys never decrease (ORDER BY key ASC).
RECURSIVE OrderByAsc(_, _)
OrderByAsc(S, key) ==
  IF S = {} THEN { <<>> }
  ELSE UNION { { <<x>> \o rest : rest \in OrderByAsc(S \ { x }, key) } :
                 x \in { y \in S : \A z \in S : key[z] >= key[y] } }

\* ORDER BY key DESC over the rows S: every sequence of the rows of S whose
\* keys never increase.
RECURSIVE OrderByDesc(_, _)
OrderByDesc(S, key) ==
  IF S = {} THEN { <<>> }
  ELSE UNION { { <<x>> \o rest : rest \in OrderByDesc(S \ { x }, key) } :
                 x \in { y \in S : \A z \in S : key[z] <= key[y] } }

\* LIMIT n
Limit(rows, n) == IF Len(rows) <= n THEN rows ELSE SubSeq(rows, 1, n)

\* today: SUM(total), COUNT(*) FROM sales WHERE date(createdAt) = date('now')
today(rows, t) ==
  LET S == { s \in 1..Len(rows) : Day(rows[s].createdAt) = Day(t) }
  IN  [ total |-> SumOver(S, [s \in S |-> rows[s].total]), orders |-> Cardinality(S) ]

\* month: the same WHERE strftime('%Y-%m', createdAt) = strftime('%Y-%m','now')
month(rows, t) ==
  LET S == { s \in 1..Len(rows) : Month(rows[s].createdAt) = Month(t) }
  IN  [ total |-> SumOver(S, [s \in S |-> rows[s].total]), orders |-> Cardinality(S) ]

\* expenses: SUM(amount) FROM expenses of the month of 'now'
expensesOfMonth(exps, t) ==
  LET S == { e \in DOMAIN exps : Month(exps[e].createdAt) = Month(t) }
  IN  [ total |-> SumOver(S, [e \in S |-> exps[e].amount]) ]

\* SUM(si.quantity) of the sale_items rows joined to a product called name.
QtyOfName(items, prods, name) ==
  LET S == { i \in 1..Len(items) :
               /\ items[i].productId \in DOMAIN prods
               /\ prods[items[i].productId].name = name }
  IN  SumOver(S, [i \in S |-> items[i].quantity])

\* The groups of GROUP BY p.name: the names of the products with a joined row.
SoldNames(items, prods) ==
  { prods[items[i].productId].name :
      i \in { j \in 1..Len(items) : items[j].productId \in DOMAIN prods } }

TopLimit == 5

\* topProducts: GROUP BY p.name ORDER BY qty DESC LIMIT 5.
topProducts(items, prods) ==
  LET G   == SoldNames(items, prods)
      qty == [name \in G |-> QtyOfName(items, prods, name)]
  IN  { [k \in 1..Len(Limit(o, TopLimit)) |-> [name |-> o[k], qty |-> qty[o[k]]]] :
          o \in OrderByDesc(G, qty) }

TrendDays == 14

\* salesTrend: WHERE createdAt >= date('now', '-14 day') GROUP BY day ORDER BY
\* day.  The days are distinct, so the order is the only one.
salesTrend(rows, t) ==
  LET S   == { s \in 1..Len(rows) : Day(rows[s].createdAt) >= Day(t) - TrendDays }
      G   == { Day(rows[s].createdAt) : s \in S }
      sum == [d \in G |->
                LET R == { s \in S : Day(rows[s].createdAt) = d }
                IN  SumOver(R, [s \in R |-> rows[s].total])]
      o   == CHOOSE q \in OrderByDesc(G, [d \in G |-> 0 - d]) : TRUE
  IN  [k \in 1..Len(o) |-> [day |-> o[k], total |-> sum[o[k]]]]

\* Mutant of reportRows: the lower bound of the range is not applied.
reportRowsUpTo(rows, from, to, userId) ==
  { s \in 1..Len(rows) :
      /\ Day(rows[s].createdAt) <= to
      /\ userId # 0 => rows[s].userId = userId }

\* WHERE date(createdAt) BETWEEN date(?) AND date(?) [AND s.userId = ?]; the
\* last condition is there when userId is truthy (0 stands for none given).
reportRows(rows, from, to, userId) ==
  { s \in 1..Len(rows) :
      /\ from <= Day(rows[s].createdAt)
      /\ Day(rows[s].createdAt) <= to
      /\ userId # 0 => rows[s].userId = userId }

\* LEFT JOIN users u ON u.id = s.userId: u.username, NULL (0) without a match.
username(us, id) == IF id \in DOMAIN us THEN us[id].username ELSE 0

\* reports/sales: SELECT s.*, u.username ... ORDER BY datetime(createdAt) DESC
salesReport(rows, us, from, to, userId) ==
  LET S == reportRows(rows, from, to, userId)
  IN  { [k \in 1..Len(o) |->
           [sale |-> rows[o[k]], username |-> username(us, rows[o[k]].userId)]] :
          o \in OrderByDesc(S, [s \in S |-> rows[s].createdAt]) }

\* The instants the clock is read at: the end of the day of the install, the
\* start of day 14, the end of day 29 and the start of day 30 after it.
Instants == { 1, 28, 59, 60 }

\* Time passes.
Tick(t) ==
  /\ t > now
  /\ now' = t
  /\ UNCHANGED <<ledger, history, inflight, ui, others, nops, out>>

\* Each statement of dashboard/metrics evaluates 'now' when it runs.  The
\* statements run one after the other, so the readings never decrease; they
\* differ when midnight falls between two statements (instant t the end of a
\* day, t + 1 the start of the next).
ClockReads(t) ==
  LET I == IF t % 2 = 1 THEN { t, t + 1 } ELSE { t }
  IN  { r \in [today : I, month : I, expenses : I, salesTrend : I] :
          r.today <= r.month /\ r.month <= r.expenses /\ r.expenses <= r.salesTrend }

\* ipcMain.handle("dashboard/metrics")
DashboardMetrics ==
  /\ \E at \in ClockReads(now), top \in topProducts(sale_items, products) :
       /\ out' = [op |-> "metrics", at |-> at,
                  today |-> today(sales, at.today), month |-> month(sales, at.month),
                  expenses |-> expensesOfMonth(expenses, at.expenses),
                  topProducts |-> top, salesTrend |-> salesTrend(sales, at.salesTrend)]
       /\ now' = at.salesTrend
  /\ UNCHANGED <<ledger, history, inflight, ui, others, nops>>

\* Mutant of SalesReport: the rows reported are deleted from sales.
SalesReportPurge(from, to, userId) ==
  /\ \E rows \in salesReport(sales, users, from, to, userId) :
       out' = [op |-> "report", from |-> from, to |-> to,
               userId |-> userId, rows |-> rows]
  /\ sales' = LET S == reportRows(sales, from, to, userId)
                  Kept(r) == r.id \notin S
              IN  SelectSeq(sales, Kept)
  /\ UNCHANGED <<products, sale_items, history, inflight, ui, others, now, nops>>

\* ipcMain.handle("reports/sales")
SalesReport(from, to, userId) ==
  /\ \E rows \in salesReport(sales, users, from, to, userId) :
       out' = [op |-> "report", from |-> from, to |-> to,
               userId |-> userId, rows |-> rows]
  /\ UNCHANGED <<ledger, history, inflight, ui, others, now, nops>>

\* The days a report is asked for, and the users it is asked for (0: all).
ReportDays == { 0, 14 }

ReportUserIds == { 0, 2 }

\* The payloads of two cashiers: user 1 sells a cart of four products, the
\* last one added to the catalogue since the install, user 2 one product.
\* The payload carries the id of the logged-in user.
ReportPayloads ==
  { [ items |-> <<Line(2, 3), Line(4, 4), Line(5, 2),
                  [id |-> 6, price |-> 1000, quantity |-> 5]>>,
      discount |-> 0, taxRate |-> SeedTaxRate, paidAmount |-> 12000, userId |-> 1 ],
    [ items |-> <<Line(2, 1)>>,
      discount |-> 0, taxRate |-> SeedTaxRate, paidAmount |-> 12000, userId |-> 2 ] }

\* Number of writing calls in one behaviour of SpecReport.
MaxReportOps == 2

ReportBudget == nops + ncalls < MaxReportOps

PostReport(payload) ==
  /\ payload.userId \in DOMAIN users
  /\ Run("w1", [busy |-> TRUE, conc |-> FALSE, payload |-> payload],
         [kind |-> "none", at |-> 0])
  /\ UNCHANGED <<inflight, ui>>

NextReport ==
  \/ \E t \in Instants : Tick(t)
  \/ \E payload \in ReportPayloads : ReportBudget /\ PostReport(payload)
  \/ \E user \in { f \in UserForms : f.id = 0 } : ReportBudget /\ UsersSave(user)
  \/ \E product \in { f \in ProductForms : f.id = 0 } : ReportBudget /\ ProductsSave(product)
  \/ DashboardMetrics
  \/ \E from \in ReportDays, to \in ReportDays, userId \in ReportUserIds :
       SalesReport(from, to, userId)

SpecReport == Init /\ [][NextReport]_vars

-----------------------------------------------------------------------------
(* The renderer: the routes of App under a HashRouter, the AuthContext     *)
(* and the POS page.  ui.requested is the path last asked for (a link, the *)
(* address bar or navigate()), ui.location the path the router settled on  *)
(* after its redirects, ui.page the page component rendered there.         *)

Page(name) == [kind |-> "page", page |-> name, to |-> "none"]

Navigate(to) == [kind |-> "navigate", page |-> "none", to |-> to]

\* The children of the layout route, by path.
LayoutPages ==
  ( "/" :> "DashboardPage" ) @@ ( "/pos" :> "POSPage" )
    @@ ( "/products" :> "ProductsPage" ) @@ ( "/customers" :> "CustomersPage" )
    @@ ( "/suppliers" :> "SuppliersPage" ) @@ ( "/expenses" :> "ExpensesPage" )
    @@ ( "/reports" :> "ReportsPage" ) @@ ( "/settings" :> "SettingsPage" )
    @@ ( "/users" :> "UsersPage" )

\* The children of the layout route that are wrapped in AdminRoute.
AdminPaths == { "/reports", "/users" }

\* The paths asked for; "/nowhere" is a path that no route matches.
Paths == DOMAIN LayoutPages \cup { "/login", "/nowhere" }

PrivateRoute(user, children) ==
  IF user = NoUser THEN Navigate("/login") ELSE children

\* Mutant of AdminRoute: the children are rendered for every role.
AdminRouteOpen(user, children) == children

AdminRoute(user, children) ==
  IF user.role # "admin" THEN Navigate("/") ELSE children

\* <Routes>: the element rendered at a path.
Routes(user, path) ==
  IF path = "/login" THEN Page("LoginPage")
  ELSE IF path \in DOMAIN LayoutPages
       THEN PrivateRoute(user,
              IF path \in AdminPaths
              THEN AdminRoute(user, Page(LayoutPages[path]))
              ELSE Page(LayoutPages[path]))
       ELSE Navigate("/")

\* The router follows <Navigate replace> elements until a page is rendered.
RECURSIVE Settle(_, _)
Settle(user, path) ==
  LET element == Routes(user, path)
  IN  IF element.kind = "page"
      THEN [location |-> path, page |-> element.page]
      ELSE Settle(user, element.to)

\* The renderer after the location is set to `path` with `user` in the
\* AuthContext.  A page that is unmounted loses its useState values: the POS
\* page starts from its initial cart, discount and paid amount when mounted.
Render(user, path, toast) ==
  LET s == Settle(user, path)
  IN  [ user |-> user, requested |-> path, location |-> s.location,
        page |-> s.page, toast |-> toast,
        cart |-> IF s.page = ui.page THEN ui.cart ELSE <<>>,
        discount |-> IF s.page = ui.page THEN ui.discount ELSE 0,
        paidAmount |-> IF s.page = ui.page THEN ui.paidAmount ELSE 0,
        checkout |-> ui.checkout ]

\* auth/login: the users row of the name without its password, when the
\* name exists and bcrypt.compareSync accepts the password.  The stored hash
\* is not part of the users rows here; credentials.valid is the outcome of
\* the comparison.
authLogin(us, credentials) ==
  LET found == { u \in DOMAIN us : us[u].username = credentials.username }
  IN  IF found = {} \/ ~credentials.valid
      THEN [success |-> FALSE, user |-> NoUser]
      ELSE LET u == CHOOSE v \in found : TRUE
           IN  [success |-> TRUE,
                user |-> [id |-> u, username |-> us[u].username, role |-> us[u].role]]

\* AuthContext.login, called by the form of the login page.
Login(credentials) ==
  /\ ui.page = "LoginPage"
  /\ LET response == authLogin(users, credentials)
     IN  ui' = IF ~response.success
               THEN [ui EXCEPT !.toast = "error"]
               ELSE Render(response.user, "/", "success")
  /\ UNCHANGED <<ledger, history, inflight, others, now, nops, out>>

\* AuthContext.logout, called by the logout buttons of the layout.
Logout ==
  /\ ui.page \notin { "LoginPage" }
  /\ ui' = Render(NoUser, "/login", ui.toast)
  /\ UNCHANGED <<ledger, history, inflight, others, now, nops, out>>

\* A NavLink of the layout is followed or a path is typed in the address bar.
Goto(path) ==
  /\ ui' = Render(ui.user, path, ui.toast)
  /\ UNCHANGED <<ledger, history, inflight, others, now, nops, out>>

Credentials == [ username : { 1, 2 }, valid : BOOLEAN ]

\* Navigation with the users table changing under it.
MaxNavOps == 1

NextNav ==
  \/ \E credentials \in Credentials : Login(credentials)
  \/ Logout
  \/ \E path \in Paths : Goto(path)
  \/ \E user \in UserForms : nops < MaxNavOps /\ UsersSave(user)

SpecNav == Init /\ [][NextNav]_vars

-----------------------------------------------------------------------------
(* The POS page: the cart, the totals and handleCheckout.  An invocation   *)
(* of handleCheckout is a run of the async function: it sends createSale   *)
(* (stage "sent"), resumes with the reply or the rejection (stage          *)
(* "replied"), sends searchProducts (stage "listing") and finishes.  The   *)
(* field `items` of an invocation is the cart its closure captured;        *)
(* `persisted` records whether its call left a sales row.                  *)

addToCart(cart, product) ==
  IF \E k \in 1..Len(cart) : cart[k].id = product.id
  THEN [k \in 1..Len(cart) |->
          IF cart[k].id = product.id
          THEN [cart[k] EXCEPT !.quantity = @ + 1] ELSE cart[k]]
  ELSE Append(cart, [id |-> product.id, price |-> product.price, quantity |-> 1])

removeFromCart(cart, id) ==
  LET Other(item) == item.id # id IN SelectSeq(cart, Other)

updateQuantity(cart, id, quantity) ==
  [k \in 1..Len(cart) |->
     IF cart[k].id = id THEN [cart[k] EXCEPT !.quantity = quantity] ELSE cart[k]]

clearCart == <<>>

MathMax(a, b) == IF a >= b THEN a ELSE b

\* Mutant of minusQuantity: the quantity is not held at 1.
minusQuantityUnclamped(item) == item.quantity - 1

\* POSCart: the quantity the minus button asks for.
minusQuantity(item) == MathMax(1, item.quantity - 1)

\* POSCart: the quantity the plus button asks for.
plusQuantity(item) == item.quantity + 1

\* Mutant of previewChange: no change is shown while the payment is short.
previewChangeClamped(cart, discount, taxRate, paidAmount) ==
  MathMax(0, paidAmount - previewTotal(cart, discount, taxRate))

previewChange(cart, discount, taxRate, paidAmount) ==
  paidAmount - previewTotal(cart, discount, taxRate)

\* The units of a cart: the sum of the quantities of its lines.
RECURSIVE Units(_)
Units(cart) == IF cart = <<>> THEN 0 ELSE Head(cart).quantity + Units(Tail(cart))

\* The units sold so far, over all products.
SoldUnits == SumOver(ProductIds, posted)

\* The greatest number of units sold and in the cart.
MaxUnits == 2

\* The products of the list that are put in the cart.
ListedIds == { 1, 3 }

OnPOSPage == ui.page = "POSPage"

\* A product card of the list is clicked.  The list is the products table as
\* searchProducts("") read it when the page was mounted.
AddToCart(id) ==
  /\ OnPOSPage
  /\ id \in DOMAIN products
  /\ SoldUnits + Units(ui.cart) < MaxUnits
  /\ ui' = [ui EXCEPT !.cart = addToCart(@, [id |-> id, price |-> products[id].price])]
  /\ UNCHANGED <<ledger, history, inflight, others, now, nops, out>>

Minus(k) ==
  /\ OnPOSPage
  /\ k \in 1..Len(ui.cart)
  /\ ui' = [ui EXCEPT !.cart = updateQuantity(@, ui.cart[k].id, minusQuantity(ui.cart[k]))]
  /\ UNCHANGED <<ledger, history, inflight, others, now, nops, out>>

Plus(k) ==
  /\ OnPOSPage
  /\ k \in 1..Len(ui.cart)
  /\ SoldUnits + Units(ui.cart) < MaxUnits
  /\ ui' = [ui EXCEPT !.cart = updateQuantity(@, ui.cart[k].id, plusQuantity(ui.cart[k]))]
  /\ UNCHANGED <<ledger, history, inflight, others, now, nops, out>>

Remove(k) ==
  /\ OnPOSPage
  /\ k \in 1..Len(ui.cart)
  /\ ui' = [ui EXCEPT !.cart = removeFromCart(@, ui.cart[k].id)]
  /\ UNCHANGED <<ledger, history, inflight, others, now, nops, out>>

Clear ==
  /\ OnPOSPage
  /\ ui.cart # <<>>
  /\ ui' = [ui EXCEPT !.cart = clearCart]
  /\ UNCHANGED <<ledger, history, inflight, others, now, nops, out>>

\* The discount input: setDiscount(Number(value)).
SetDiscount(value) ==
  /\ OnPOSPage
  /\ ui' = [ui EXCEPT !.discount = value]
  /\ UNCHANGED <<ledger, history, inflight, others, now, nops, out>>

\* The paid amount input: setPaidAmount(Number(value)).
SetPaidAmount(value) ==
  /\ OnPOSPage
  /\ ui' = [ui EXCEPT !.paidAmount = value]
  /\ UNCHANGED <<ledger, history, inflight, others, now, nops, out>>

\* The payload handleCheckout builds from the state of the page.  The
\* SettingsContext holds the settings row; no settings/save runs here.
checkoutPayload ==
  [ items |-> ui.cart, discount |-> ui.discount, taxRate |-> settings.taxRate,
    paidAmount |-> ui.paidAmount, userId |-> ui.user.id ]

\* The checkout button is clicked and invocation c of handleCheckout runs up
\* to its first await; `max` bounds the createSale calls of a behaviour.
CheckoutClick(c, max) ==
  /\ OnPOSPage
  /\ ui.checkout[c].stage = "idle"
  /\ IF ui.cart = <<>> \/ ui.user = NoUser
     THEN /\ ui' = [ui EXCEPT !.toast = "error"]
          /\ UNCHANGED inflight
     ELSE /\ ncalls + Cardinality(Pending) < max
          /\ inflight' = [inflight EXCEPT ![c] =
                            [busy |-> TRUE, conc |-> FALSE, payload |-> checkoutPayload]]
          /\ ui' = [ui EXCEPT !.checkout[c] =
                      [IdleCheckout EXCEPT !.stage = "sent", !.items = ui.cart]]
  /\ UNCHANGED <<ledger, history, others, now, nops, out>>

\* The main process handles the createSale message of invocation c, and the
\* reply or the rejection reaches the renderer.
ServeCheckout(c, fault) ==
  /\ inflight[c].busy
  /\ ui.checkout[c].stage = "sent"
  /\ Run(c, inflight[c], fault)
  /\ inflight' = [inflight EXCEPT ![c] = NoReq]
  /\ ui' = [ui EXCEPT !.checkout[c] =
              [@ EXCEPT !.stage = "replied", !.kind = resp'.kind,
                        !.saleId = resp'.saleId,
                        !.persisted = Len(sales') > Len(sales)]]

\* Invocation c resumes after `await createSale`: on a rejection the catch
\* block reports the failure; on a reply success is reported, the invoice is
\* generated (`thrown`: printJS or jsPDF throws, which the catch block takes)
\* and searchProducts("") is sent.
CheckoutReplied(c, thrown) ==
  /\ ui.checkout[c].stage = "replied"
  /\ ui.checkout[c].kind # "ok" => ~thrown
  /\ ui' = IF ui.checkout[c].kind # "ok" \/ thrown
           THEN [ui EXCEPT !.toast = "error",
                           !.checkout[c] = [@ EXCEPT !.stage = "idle"]]
           ELSE [ui EXCEPT !.toast = "success",
                           !.checkout[c] = [@ EXCEPT !.stage = "listing"]]
  /\ UNCHANGED <<ledger, history, inflight, others, now, nops, out>>

\* Invocation c resumes after `await searchProducts("")`: the list is set,
\* the cart is cleared, discount and paid amount are set to 0.
CheckoutListed(c) ==
  /\ ui.checkout[c].stage = "listing"
  /\ ui' = [ui EXCEPT !.cart = clearCart, !.discount = 0, !.paidAmount = 0,
                      !.checkout[c] = [@ EXCEPT !.stage = "idle"]]
  /\ UNCHANGED <<ledger, history, inflight, others, now, nops, out>>

\* The cashier who opens the POS page.
Cashier == [username |-> 1, valid |-> TRUE]

\* The faults a checkout meets: none, or the write of the first line throws.
CheckoutFaults == { f \in Faults : f.kind = "none" \/ (f.kind = "write" /\ f.at = 1) }

\* The cart operations and one checkout at a time.
MaxCartCalls == 1

NextCart ==
  \/ Login(Cashier)
  \/ Goto("/pos")
  \/ \E id \in ListedIds : AddToCart(id)
  \/ \E k \in 1..2 : Minus(k)
  \/ \E k \in 1..2 : Plus(k)
  \/ \E k \in 1..2 : Remove(k)
  \/ Clear
  \/ \E value \in { 0, 500 } : SetDiscount(value)
  \/ \E value \in { 0, 12000 } : SetPaidAmount(value)
  \/ CheckoutClick("w1", MaxCartCalls)
  \/ ServeCheckout("w1", NoFault)
  \/ CheckoutReplied("w1", FALSE)
  \/ CheckoutListed("w1")

SpecCart == Init /\ [][NextCart]_vars

\* The checkout button clicked again while earlier invocations are pending.
MaxPosCalls == 2

NextCheckout ==
  \/ Login(Cashier)
  \/ Goto("/pos")
  \/ \E id \in ListedIds : AddToCart(id)
  \/ \E c \in Callers : CheckoutClick(c, MaxPosCalls)
  \/ \E c \in Callers, fault \in CheckoutFaults : ServeCheckout(c, fault)
  \/ \E c \in Callers, thrown \in BOOLEAN : CheckoutReplied(c, thrown)
  \/ \E c \in Callers : CheckoutListed(c)

SpecCheckout == Init /\ [][NextCheckout]_vars

-----------------------------------------------------------------------------
(* Properties                                                              *)

\* A createSale call is handled in this step.
Handled == ncalls' = ncalls + 1

\* A createSale call is handled in this step and returns or throws to its
\* caller (the process does not die in it).
Returned == Handled /\ resp'.kind # "crashed"

TablesUnchanged ==
  /\ sales' = sales
  /\ sale_items' = sale_items
  /\ products' = products

\* Sum of price * quantity over the lines of a cart.
RECURSIVE SumLines(_)
SumLines(items) ==
  IF items = <<>> THEN 0
  ELSE Head(items).price * Head(items).quantity + SumLines(Tail(items))

Max(a, b) == IF a >= b THEN a ELSE b

\* The sale_items rows of sale s, in table order.
ItemsOf(s) ==
  LET OfSale(r) == r.saleId = s IN SelectSeq(sale_items, OfSale)

\* Quantity of product id over the sale_items rows written by createSale.
RECURSIVE RecordedQty(_, _)
RecordedQty(i, id) ==
  IF i > Len(sale_items) THEN 0
  ELSE (IF sale_items[i].productId = id THEN sale_items[i].quantity ELSE 0)
         + RecordedQty(i + 1, id)

\* The sales rows that createSale wrote (the rows after the seeded one).
PostedSales == (Len(SeedSales) + 1)..Len(sales)

\* C1: when a write of the commit fails (a sale_items insert or a stock
\* update throws) and the call has reported the failure, sales, sale_items
\* and every products.quantity are what they were before the call.
C1_FailedCommitPersistsNothing ==
  [][ (Handled /\ resp'.kind = "error" /\ resp'.stage = "transaction")
        => TablesUnchanged ]_vars

\* C2: in every state between operations, each sales row written by
\* createSale has exactly one sale_items row per line of its cart, every
\* sale_items row belongs to a sales row, and the stock of each product is its
\* seeded stock less the quantities of the recorded lines.
C2_HeaderItemsStockTogether ==
  /\ \A s \in PostedSales :
       /\ Len(ItemsOf(s)) = Len(postings[s])
       /\ \A k \in 1..Len(postings[s]) :
            /\ k <= Len(ItemsOf(s))
            /\ ItemsOf(s)[k].productId = postings[s][k].id
            /\ ItemsOf(s)[k].quantity = postings[s][k].quantity
  /\ \A i \in 1..Len(sale_items) : sale_items[i].saleId \in 1..Len(sales)
  /\ \A id \in DOMAIN products :
       products[id].quantity =
         SeedProducts[id].quantity - RecordedQty(Len(SeedSaleItems) + 1, id)

\* C3: with createSale calls in flight at the same time, the rows of one sale
\* are not interleaved with those of another and no decrement is lost: the
\* quantity of each product is its initial quantity less the sum of the
\* quantities posted by the calls that committed.
C3_NoLostDecrement ==
  /\ \A id \in DOMAIN products :
       products[id].quantity = SeedProducts[id].quantity - posted[id]
  /\ \A i, j, k \in 1..Len(sale_items) :
       (i < j /\ j < k /\ sale_items[i].saleId = sale_items[k].saleId)
         => sale_items[j].saleId = sale_items[i].saleId

\* Two calls that were in flight together have both committed a sale on
\* product 1.
C3_Witness ==
  /\ ncalls = 2
  /\ call.conc
  /\ resp.kind = "ok"
  /\ Len(sales) = Len(SeedSales) + 2
  /\ \A s \in PostedSales : \E k \in 1..Len(ItemsOf(s)) : ItemsOf(s)[k].productId = 1
  /\ posted[1] >= 2
  /\ products[1].quantity = SeedProducts[1].quantity - posted[1]

\* C4: a successful createSale lowers the quantity of each product by the sum
\* of the quantities of the lines that name it, and leaves the quantity of a
\* product that no line names as it was.
C4_StockDecrementFrame ==
  [][ (Handled /\ resp'.kind = "ok")
        => /\ DOMAIN products' = DOMAIN products
           /\ \A id \in DOMAIN products :
                /\ products'[id].quantity =
                     products[id].quantity - PostedQty(call'.payload.items, id)
                /\ products'[id].price = products[id].price ]_vars

\* A sale with two lines on product 1 has been posted: its stock went down by
\* 2, that of products 3 and 4 did not move.
C4_Witness ==
  /\ resp.kind = "ok"
  /\ call.payload.items = <<Line(1, 1), Line(1, 1)>>
  /\ products[1].quantity = SeedProducts[1].quantity - 2
  /\ products[3].quantity = SeedProducts[3].quantity
  /\ products[4].quantity = SeedProducts[4].quantity

\* C5: the tax of a posted sale, and the tax the POS page shows for the same
\* cart, is max(0, subtotal - discount) * taxRate; it is never negative.
C5_TaxOnClampedBase ==
  resp.kind = "ok" =>
    LET p    == call.payload
        base == Max(0, SumLines(p.items) - p.discount)
    IN  /\ resp.taxValue = (base * p.taxRate) \div 100
        /\ sales[resp.saleId].tax = (base * p.taxRate) \div 100
        /\ previewTax(p.items, p.discount, p.taxRate) = (base * p.taxRate) \div 100
        /\ resp.taxValue >= 0

\* C6: the total that createSale stores in the sales row and returns is
\* (subtotal - discountValue) + taxValue, the subtotal being the sum of
\* price * quantity over the lines of the cart.
C6_TotalStoredAndReturned ==
  /\ \A s \in PostedSales :
       sales[s].total = (SumLines(postings[s]) - sales[s].discount) + sales[s].tax
  /\ resp.kind = "ok" =>
       /\ resp.total =
            (SumLines(call.payload.items) - resp.discountValue) + resp.taxValue
       /\ resp.discountValue = call.payload.discount
       /\ sales[resp.saleId].total = resp.total

\* A sale of two lines with a discount of 5 has been posted.
C6_Witness ==
  /\ resp.kind = "ok"
  /\ call.payload.discount = 500
  /\ Len(call.payload.items) = 2
  /\ sales[resp.saleId].total = resp.total
  /\ resp.total # SumLines(call.payload.items)

ExamplePayload ==
  [ items |-> << [id |-> 1, price |-> 3500, quantity |-> 1],
                 [id |-> 3, price |-> 6000, quantity |-> 1] >>,
    discount |-> 500, taxRate |-> 15, paidAmount |-> 12000, userId |-> 1 ]

\* C7: posting [(product 1, 35, 1), (product 3, 60, 1)] with discount 5, tax
\* rate 0.15 and 120 paid gives subtotal 95, discount 5, tax 13.5, total 103.5
\* and change 16.5, and takes 1 off the stock of products 1 and 3.
C7_WorkedExample ==
  [][ (Handled /\ call'.payload = ExamplePayload /\ resp'.kind = "ok")
        => /\ Subtotal(call'.payload.items) = 9500
           /\ resp'.discountValue = 500
           /\ resp'.taxValue = 1350
           /\ resp'.total = 10350
           /\ resp'.changeAmount = 1650
           /\ sales'[resp'.saleId].total = 10350
           /\ sales'[resp'.saleId].tax = 1350
           /\ sales'[resp'.saleId].changeAmount = 1650
           /\ products'[1].quantity = products[1].quantity - 1
           /\ products'[3].quantity = products[3].quantity - 1 ]_vars

\* The example cart has been posted.
C7_Witness ==
  /\ call.payload = ExamplePayload
  /\ resp.kind = "ok"
  /\ ItemsOf(resp.saleId) =
       << [id |-> 3, saleId |-> resp.saleId, productId |-> 1, quantity |-> 1, price |-> 3500],
          [id |-> 4, saleId |-> resp.saleId, productId |-> 3, quantity |-> 1, price |-> 6000] >>

\* C8: createSale called with an empty cart is rejected with an error and
\* writes nothing: sales, sale_items and products are as before the call.
C8_EmptyCartRejected ==
  [][ (Returned /\ call'.payload.items = <<>>)
        => (resp'.kind = "error" /\ TablesUnchanged) ]_vars

\* C9: a cart with a line whose product id is not in products when the sale
\* is posted leaves no sales row, no sale_items row and no stock change.
C9_UnknownProductWritesNothing ==
  [][ (Returned /\ \E i \in 1..Len(call'.payload.items) :
                     call'.payload.items[i].id \notin DOMAIN products)
        => (resp'.kind = "error" /\ TablesUnchanged) ]_vars

\* C10: a cart with a line of quantity <= 0 is rejected before any write: no
\* sales row, no sale_items row, no product quantity changes.
C10_NonPositiveQuantityRejected ==
  [][ (Returned /\ \E i \in 1..Len(call'.payload.items) :
                     call'.payload.items[i].quantity <= 0)
        => (resp'.kind = "error" /\ TablesUnchanged) ]_vars

\* C11: no createSale call drives a product's quantity below 0: when every
\* quantity is >= 0 before a posting, every quantity is >= 0 after it.
C11_StockNeverNegative ==
  [][ (Handled /\ \A id \in DOMAIN products : products[id].quantity >= 0)
        => \A id \in DOMAIN products' : products'[id].quantity >= 0 ]_vars

\* C12: when the first posting of a cart fails and the caller resubmits the
\* same cart with success, the store holds exactly one sales row written by
\* createSale, the lines of the cart are recorded once and the stock is
\* decremented once.
C12_RetryLeavesOneSale ==
  [][ (Handled /\ ncalls = 1 /\ resp.kind = "error"
         /\ call'.payload = call.payload /\ resp'.kind = "ok")
        => /\ Len(sales') = Len(SeedSales) + 1
           /\ Len(sale_items') = Len(SeedSaleItems) + Len(call'.payload.items)
           /\ \A id \in DOMAIN products :
                products'[id].quantity =
                  products[id].quantity - PostedQty(call'.payload.items, id) ]_vars

\* C13: in every state, the seeded one included, every sales row has
\* total = (subtotal - discount) + tax, the subtotal being the sum of
\* price * quantity over the sale_items rows of the sale.
C13_TotalMatchesItems ==
  \A s \in 1..Len(sales) :
    sales[s].total = (SumLines(ItemsOf(s)) - sales[s].discount) + sales[s].tax

\* C15: the price of a sale_items row is the price the product has when the
\* sale is posted, and a later products/save changes no sale_items row.
C15_ItemPriceAtSaleTime ==
  [][ /\ (Handled /\ resp'.kind = "ok")
        => \A i \in (Len(sale_items) + 1)..Len(sale_items') :
             sale_items'[i].price = products[sale_items'[i].productId].price
      /\ nops' # nops => sale_items' = sale_items ]_vars

\* C14: no handler changes or deletes a sales row, or a sale_items row of a
\* completed call, once it exists: every step keeps every sales row that was
\* there, and every sale_items row that was there when no createSale was
\* half way, with the same id and the same values.
C14_SalesRowsNeverChange ==
  [][ /\ Len(sales') >= Len(sales)
      /\ \A s \in 1..Len(sales) : sales'[s] = sales[s]
      /\ Len(sale_items') >= Len(sale_items)
      /\ \A i \in 1..Len(sale_items) : sale_items'[i] = sale_items[i] ]_vars

\* A posted sale was followed by an edit of its product, by the deletion of
\* another product and by a change of the settings, and is still there.
C14_Witness ==
  /\ Len(sales) > Len(SeedSales)
  /\ nops >= 2
  /\ resp.kind = "ok"


\* C15 (amended): the price recorded in each sale_items row is the price of
\* the cart line the payload carries for it (the product's price when the
\* sales screen listed it, which an edit made since then does not reach), and
\* products/save changes no recorded sale item.
C15_ItemPriceFromCart ==
  [][ /\ (Handled /\ resp'.kind = "ok") =>
           /\ Len(sale_items') = Len(sale_items) + Len(call'.payload.items)
           /\ \A k \in 1..Len(call'.payload.items) :
                sale_items'[Len(sale_items) + k].price = call'.payload.items[k].price
      /\ nops' # nops => sale_items' = sale_items ]_vars

\* A sale of product 1 was recorded at the price of its cart line, and the
\* product now carries another price.
C15_Witness ==
  /\ Len(sale_items) > Len(SeedSaleItems)
  /\ sale_items[Len(SeedSaleItems) + 1].productId = 1
  /\ sale_items[Len(SeedSaleItems) + 1].price = SeedProducts[1].price
  /\ products[1].price # SeedProducts[1].price
  /\ nops > 0


\* The last call served was dashboard/metrics (reports/sales): the tables are
\* those the reply was computed from, and out.at are the clock readings of
\* the statements of dashboard/metrics.
MetricsReply == out.op = "metrics"

ReportReply == out.op = "report"

\* Name a comes before name b in the order of the top products: the larger
\* sold quantity first, the smaller name first on equal quantities.
TopBefore(a, b) ==
  LET qa == QtyOfName(sale_items, products, a)
      qb == QtyOfName(sale_items, products, b)
  IN  qa > qb \/ (qa = qb /\ a < b)

\* C16: topProducts has at most 5 entries, each the summed quantity of a sold
\* product; they are in descending order of that sum, equal sums in ascending
\* order of name, and every product left out comes after every one listed.
C16_TopProductsOrder ==
  MetricsReply =>
    LET r == out.topProducts
        G == SoldNames(sale_items, products)
    IN  /\ Len(r) <= 5
        /\ Len(r) = IF Cardinality(G) < 5 THEN Cardinality(G) ELSE 5
        /\ \A k \in 1..Len(r) :
             r[k].name \in G /\ r[k].qty = QtyOfName(sale_items, products, r[k].name)
        /\ \A j, k \in 1..Len(r) : j < k => TopBefore(r[j].name, r[k].name)
        /\ \A name \in G \ { r[k].name : k \in 1..Len(r) } :
             \A k \in 1..Len(r) : TopBefore(r[k].name, name)

\* Sum of the totals of the sales of day d.
TotalOfDay(d) ==
  LET S == { s \in 1..Len(sales) : Day(sales[s].createdAt) = d }
  IN  SumOver(S, [s \in S |-> sales[s].total])

\* C17: salesTrend has exactly one entry for each day with a sale among the
\* 14 days ending today (today and the 13 days before), with the sum of the
\* totals of that day, in ascending order of day, and no other entry.
C17_TrendWindow ==
  MetricsReply =>
    LET r == out.salesTrend
        D == Day(out.at.salesTrend)
        W == { d \in (D - 13)..D : \E s \in 1..Len(sales) : Day(sales[s].createdAt) = d }
    IN  /\ { r[k].day : k \in 1..Len(r) } = W
        /\ Len(r) = Cardinality(W)
        /\ \A k \in 1..Len(r) : r[k].total = TotalOfDay(r[k].day)

\* C18: the report holds exactly the sales of the days from..to, both
\* included, of the user asked for when one is given, each once, the later
\* sale first, each with the username of the user that posted it.
C18_ReportRows ==
  ReportReply =>
    LET r == out.rows
        S == { s \in 1..Len(sales) :
                 /\ out.from <= Day(sales[s].createdAt)
                 /\ Day(sales[s].createdAt) <= out.to
                 /\ out.userId # 0 => sales[s].userId = out.userId }
    IN  /\ { r[k].sale : k \in 1..Len(r) } = { sales[s] : s \in S }
        /\ Len(r) = Cardinality(S)
        /\ \A j, k \in 1..Len(r) : j < k => r[j].sale.createdAt >= r[k].sale.createdAt
        /\ \A k \in 1..Len(r) :
             /\ r[k].sale.userId \in DOMAIN users
             /\ r[k].username = users[r[k].sale.userId].username

\* A report over all users and over the days 0..14 holds the sale posted by a
\* second user before the older one of the seed, each with its username.
C18_Witness ==
  /\ ReportReply
  /\ out.from = 0 /\ out.to = 14 /\ out.userId = 0
  /\ Len(out.rows) = 2
  /\ out.rows[1].sale.createdAt > out.rows[2].sale.createdAt
  /\ out.rows[1].username # out.rows[2].username

\* C19: today and month are the sum of total and the number of the sales of
\* the current day and of the current month, and every sale counted in today
\* is counted in month: no more orders today than in the month.
C19_TodayWithinMonth ==
  MetricsReply =>
    LET T == { s \in 1..Len(sales) : Day(sales[s].createdAt) = Day(out.at.today) }
        M == { s \in 1..Len(sales) : Month(sales[s].createdAt) = Month(out.at.month) }
    IN  /\ out.today.orders = Cardinality(T)
        /\ out.today.total = SumOver(T, [s \in T |-> sales[s].total])
        /\ out.month.orders = Cardinality(M)
        /\ out.month.total = SumOver(M, [s \in M |-> sales[s].total])
        /\ T \subseteq M
        /\ out.today.orders <= out.month.orders

\* C20: a report asked from a day to that same day, on which no sale was
\* posted, is answered, and with the empty sequence.
C20_EmptyDayReport ==
  /\ (ReportReply /\ out.from = out.to
        /\ \A s \in 1..Len(sales) : Day(sales[s].createdAt) # out.from)
       => out.rows = <<>>
  /\ \A X \in ReportDays, userId \in ReportUserIds : ENABLED SalesReport(X, X, userId)

\* A report for day 14 was answered with no row while the table holds sales of
\* other days.
C20_Witness ==
  /\ ReportReply
  /\ out.from = 14 /\ out.to = 14
  /\ out.rows = <<>>
  /\ Len(sales) >= 2


\* C21: dashboard/metrics and reports/sales write nothing: a step that ends
\* with the reply of one of them leaves products, sales, sale_items, expenses
\* and users as they were, whatever the calls before it.
C21_QueriesReadOnly ==
  [][ out'.op # "none" =>
        UNCHANGED <<products, sales, sale_items, expenses, users>> ]_vars

\* A report was served after a sale and a new user were written.
C21_Witness ==
  /\ ReportReply
  /\ Len(sales) > Len(SeedSales)
  /\ Cardinality(DOMAIN users) > 1
  /\ Len(out.rows) > 0

\* C22: a successful createSale creates one sales row and returns its id, and
\* the total, taxValue, discountValue and changeAmount it returns are the
\* total, tax, discount and changeAmount of that row.
C22_ReplyMatchesRow ==
  [][ (Handled /\ resp'.kind = "ok") =>
        /\ Len(sales') = Len(sales) + 1
        /\ \A s \in 1..Len(sales) : sales'[s] = sales[s]
        /\ LET row == sales'[Len(sales')]
           IN  /\ resp'.saleId = row.id
               /\ resp'.total = row.total
               /\ resp'.taxValue = row.tax
               /\ resp'.discountValue = row.discount
               /\ resp'.changeAmount = row.changeAmount ]_vars

\* The last row is the one of the reply, with a tax and a change to compare.
C22_Witness ==
  /\ resp.kind = "ok"
  /\ resp.saleId = Len(sales)
  /\ resp.taxValue > 0
  /\ resp.changeAmount # 0
  /\ sales[Len(sales)].tax = resp.taxValue
  /\ sales[Len(sales)].changeAmount = resp.changeAmount

\* Every line of the cart has a price >= 0 and a quantity > 0.
SoundLines(items) ==
  \A k \in 1..Len(items) : items[k].price >= 0 /\ items[k].quantity > 0

\* C23: a cart of sound lines (and not empty) whose discount exceeds its
\* subtotal, so that the total would be negative, is rejected and nothing is
\* written.
C23_NegativeTotalRejected ==
  [][ ( /\ Returned
        /\ call'.payload.items # <<>>
        /\ SoundLines(call'.payload.items)
        /\ call'.payload.discount > SumLines(call'.payload.items) )
      => (resp'.kind = "error" /\ TablesUnchanged) ]_vars


\* A sale of two units of product 3 (120 + tax) paid with 120.
UnderpaidPayloads ==
  { p \in Payloads : p.discount = 0 /\ p.items = <<Line(3, 1), Line(3, 1)>> }

\* C24: a posted sale has changeAmount = paidAmount - total, in the reply and
\* in its row; when that is negative the header, the items and the stock
\* decrements are recorded all the same; and an underpaid cart is accepted in
\* every state (no storage fault given).
C24_NegativeChangePosted ==
  [][ /\ (Handled /\ resp'.kind = "ok") =>
           /\ resp'.changeAmount = call'.payload.paidAmount - resp'.total
           /\ sales'[resp'.saleId].changeAmount = resp'.changeAmount
           /\ sales'[resp'.saleId].paidAmount = call'.payload.paidAmount
           /\ resp'.changeAmount < 0 =>
                /\ Len(sales') = Len(sales) + 1
                /\ Len(sale_items') = Len(sale_items) + Len(call'.payload.items)
                /\ \A id \in DOMAIN products :
                     products'[id].quantity =
                       products[id].quantity - PostedQty(call'.payload.items, id)
      /\ \A p \in UnderpaidPayloads :
           LET r == createSale([sales |-> sales, sale_items |-> sale_items,
                                products |-> products, now |-> now], p, NoFault)
           IN  /\ r.resp.kind = "ok"
               /\ r.resp.changeAmount < 0
               /\ Len(r.sales) = Len(sales) + 1 ]_vars

\* An underpaid sale is the last one posted: its change is negative, its
\* items are recorded and the stock of its product is lower than at the seed.
C24_Witness ==
  /\ resp.kind = "ok"
  /\ resp.changeAmount < 0
  /\ sales[resp.saleId].changeAmount < 0
  /\ \E i \in 1..Len(sale_items) : sale_items[i].saleId = resp.saleId
  /\ \E id \in DOMAIN products : products[id].quantity < SeedProducts[id].quantity

\* C25: a products/save of the form of product 1 as the products page loaded
\* it before any sale (its quantity field still the loaded one) keeps the
\* decrements of the sales posted since: the quantity after the save is the
\* loaded quantity less the quantity sold.
C25_SaveKeepsDecrement ==
  [][ ( /\ nops' # nops
        /\ 1 \in DOMAIN products
        /\ products'[1] # products[1]
        /\ products'[1].quantity = SeedProducts[1].quantity )
      => products'[1].quantity = SeedProducts[1].quantity - posted[1] ]_vars

\* Invocation c of handleCheckout sends its createSale message in this step.
Sends(c) == ~inflight[c].busy /\ inflight'[c].busy

\* The createSale call of invocation c is handled in this step.
Served(c) == ui.checkout[c].stage = "sent" /\ ui'.checkout[c].stage = "replied"

\* Invocation c of handleCheckout finishes in this step.
Finishes(c) ==
  ui.checkout[c].stage \in { "replied", "listing" } /\ ui'.checkout[c].stage = "idle"

\* An invocation that has not finished: the cart it posted is not cleared yet.
Unfinished(d) == ui.checkout[d].stage \in { "sent", "replied", "listing" }

\* C26: a cart is posted at most once per checkout: when the call of an
\* invocation of handleCheckout leaves a sale, no other invocation that is
\* still unfinished (its cart is not cleared yet) has left a sale for the same
\* cart.
C26_PostedOnce ==
  [][ \A c \in Callers :
        (Served(c) /\ ui'.checkout[c].persisted)
          => ~\E d \in Callers \ { c } :
                /\ Unfinished(d)
                /\ ui.checkout[d].persisted
                /\ ui.checkout[d].items = ui.checkout[c].items ]_vars

\* C27: handleCheckout clears the cart and sets discount and paid amount to 0
\* exactly when the sale was persisted: an invocation whose createSale call
\* committed finishes after reporting success, with the cart empty and
\* discount and paid amount 0, and an invocation that finishes by reporting a
\* failure and keeping the cart has left no sales row.
C27_ClearedIffPersisted ==
  [][ \A c \in Callers :
        Finishes(c)
          => /\ ui.checkout[c].kind = "ok"
                  => /\ ui.checkout[c].stage = "listing"
                     /\ ui'.cart = <<>>
                     /\ ui'.discount = 0
                     /\ ui'.paidAmount = 0
             /\ (ui'.toast = "error" /\ ui'.cart = ui.cart /\ ui.cart # <<>>
                   /\ ui.checkout[c].stage = "replied")
                  => ~ui.checkout[c].persisted ]_vars

\* C28: after any sequence of cart operations of the POS page (add, minus,
\* plus, remove, clear, and the clearing by a checkout) the cart has at most
\* one line per product id and every line has a quantity of at least 1.
C28_CartWellFormed ==
  /\ \A j, k \in 1..Len(ui.cart) : j # k => ui.cart[j].id # ui.cart[k].id
  /\ \A k \in 1..Len(ui.cart) : ui.cart[k].quantity >= 1

\* A product was added twice and merged into its line.
C28_Witness ==
  /\ ui.page = "POSPage"
  /\ \E k \in 1..Len(ui.cart) : ui.cart[k].quantity >= 2

\* C29: the tax, total and change that the POS page shows for the cart,
\* discount, tax rate and paid amount it posts are the taxValue, total and
\* changeAmount that createSale returns and stores for that checkout.
C29_PreviewMatches ==
  [][ \A c \in Callers :
        /\ Sends(c) => inflight'[c].payload = checkoutPayload
        /\ (Served(c) /\ resp'.kind = "ok")
             => LET p   == inflight[c].payload
                    row == sales'[Len(sales')]
                    tax    == previewTax(p.items, p.discount, p.taxRate)
                    total  == previewTotal(p.items, p.discount, p.taxRate)
                    change == previewChange(p.items, p.discount, p.taxRate, p.paidAmount)
                IN  /\ resp'.taxValue = tax /\ row.tax = tax
                    /\ resp'.total = total /\ row.total = total
                    /\ resp'.changeAmount = change /\ row.changeAmount = change ]_vars

\* A checkout with a discount and a payment was answered, and one with a
\* short payment.
C29_Witness ==
  /\ ui.checkout["w1"].stage = "replied"
  /\ resp.kind = "ok"
  /\ call.payload.discount > 0
  /\ resp.taxValue > 0
  /\ resp.changeAmount # 0
  /\ resp.changeAmount = previewChange(call.payload.items, call.payload.discount,
                                       call.payload.taxRate, call.payload.paidAmount)

\* The pages rendered inside the layout.
PagesOfLayout == { LayoutPages[path] : path \in DOMAIN LayoutPages }

\* C30: a page of the layout is rendered only while a user is logged in, and
\* the reports and users pages only while that user's role is admin; a path
\* of the layout asked for without a user ends at /login, and an admin path
\* asked for by a user who is not an admin ends at /.
C30_RoutesGuarded ==
  /\ ui.page \in PagesOfLayout => ui.user # NoUser
  /\ ui.page \in { LayoutPages[path] : path \in AdminPaths } => ui.user.role = "admin"
  /\ (ui.user = NoUser /\ ui.requested # "/login")
       => (ui.location = "/login" /\ ui.page = "LoginPage")
  /\ (ui.user # NoUser /\ ui.user.role # "admin" /\ ui.requested \in AdminPaths)
       => (ui.location = "/" /\ ui.page = "DashboardPage")

\* A cashier asked for the reports page and was sent to the dashboard.
C30_Witness ==
  /\ ui.user.role = "cashier"
  /\ ui.requested = "/reports"
  /\ ui.location = "/"
  /\ ui.page = "DashboardPage"

=============================================================================
